---------------------------- MODULE Spec2Model ----------------------------
(***************************************************************************)
(* Model of dbflib (src/lib/dbflib.hpp): DBFileBuilder assembles blocks    *)
(* and link records into one buffer, DBFileReader validates a buffer and   *)
(* resolves its links in place.                                            *)
(*                                                                         *)
(* Number representation.  TLC integers are 32-bit signed, so a uint32_t   *)
(* is held as the int32 with the same bit pattern (v >= 2^31 is held as    *)
(* v - 2^32) and a size_t as the int with the same low bits (only values   *)
(* within 2^31 of 0 or of 2^64 occur; 2^64 - k is held as -k).  The U32    *)
(* and Size operators below compute the unsigned results on that           *)
(* representation.  Bytes are 0..255, multi-byte fields little-endian.     *)
(***************************************************************************)
EXTENDS Integers, Sequences, FiniteSets, TLC

VARIABLES
    DEBUG,      \* build configuration: is the DEBUG macro defined
    szBuilder,  \* sizeof(DBFileBuilder) of the build
    linked,     \* DBFileBuilder::linked
    data,       \* DBFileBuilder::data, the bytes
    blocks,     \* DBFileBuilder::blocks, BlockId -> BlockSize
    links,      \* DBFileBuilder::links, sequence of [origin, destination]
    ret,        \* what the last builder call did
    nblocks,    \* number of CreateBlock calls that grew or shrank the buffer
    nbuilds,    \* number of Build calls that went past the linked test
    file,       \* bytes WriteToFile has written, <<>> before
    rd,         \* the reader: its buffer, known length and outcome
    fn,         \* input and output of Build's header computation (SpecBuild)
    view        \* the pointer into data a caller holds, from CreateBlock or GetBlock

vars == <<DEBUG, szBuilder, linked, data, blocks, links, ret, nblocks, nbuilds, file,
          rd, fn, view>>

-----------------------------------------------------------------------------
(* Bounds of the model *)

MaxBlocks == 2
MaxLinks == 2
MaxBuilds == 1
MaxCalls == 2

-----------------------------------------------------------------------------
(* Constants of the program *)

INT32_MAX == 2147483647
\* SIZE_MAX, the largest size_t, in the representation above
SIZE_MAX == -1
\* DB_FILE_MAGIC = 0x0d0a46424424 as the 8 bytes a little-endian store writes
DB_FILE_MAGIC == <<36, 68, 66, 70, 10, 13, 0, 0>>
DB_FILE_MIN_VERSION == 16
DB_FILE_CURR_VERSION == 16
LINKING == 16

\* struct DB_FILE: offsets of the fields and size of the struct
OffMagic == 0
OffVersion == 8
OffFlags == 9
OffLinksCount == 10
OffLinksTableOffset == 12
OffStartOffset == 16
OffDataSize == 20
OffFileSize == 24
SizeofDBFile == 28
\* struct DB_FILE_LINK
SizeofLink == 8
\* sizeof(void* ), the width of the store at line 241
SizeofPtr == 8
\* sizeof(sizeof(...)) = sizeof(size_t)
SizeofSizeT == 8

\* sizeof(DBFileBuilder) is what the constructor resizes the buffer to; it
\* depends on the standard library: bool + padding, two vectors and an
\* unordered_map (libc++ 96, libstdc++ 112, MSVC 120 on 64-bit targets).
BuilderSizes == {96, 112, 120}
\* the layout the builder is followed under step by step (libstdc++)
SizeofDBFileBuilder == 112

-----------------------------------------------------------------------------
(* Unsigned arithmetic on the representation *)

\* a < b as uint32_t
U32Lt(a, b) == IF (a < 0) = (b < 0) THEN a < b ELSE b < 0
U32Gt(a, b) == U32Lt(b, a)

\* a + b as uint32_t (wraps modulo 2^32)
U32Add(a, b) ==
    IF a >= 0 /\ b >= 0
    THEN IF a > INT32_MAX - b THEN ((a - INT32_MAX) + (b - INT32_MAX)) - 2
                              ELSE a + b
    ELSE IF a < 0 /\ b < 0
    THEN IF a < (-INT32_MAX - 1) - b THEN ((a + INT32_MAX) + (b + INT32_MAX)) + 2
                                     ELSE a + b
    ELSE a + b

\* (uint16_t)v
ToU16(v) == v % 65536

\* the k-th byte (0 = lowest) of a 32-bit value
ByteOf(v, k) ==
    CASE k = 0 -> v % 256
      [] k = 1 -> (v \div 256) % 256
      [] k = 2 -> (v \div 65536) % 256
      [] k = 3 -> (v \div 16777216) % 256

U16Bytes(v) == <<ByteOf(v, 0), ByteOf(v, 1)>>
U32Bytes(v) == <<ByteOf(v, 0), ByteOf(v, 1), ByteOf(v, 2), ByteOf(v, 3)>>

\* the value four little-endian bytes hold, as uint32_t
U32Of(b) ==
    b[1] + 256 * b[2] + 65536 * b[3]
      + 16777216 * (IF b[4] >= 128 THEN b[4] - 256 ELSE b[4])
U16Of(b) == b[1] + 256 * b[2]


\* a + b > INT32_MAX as size_t, for a buffer length a and a size_t b: the
\* sum wraps modulo 2^64 when b is within a of SIZE_MAX
SizeAddGtMax(a, b) == IF b >= 0 THEN b > INT32_MAX - a ELSE a + b < 0
\* a + b as size_t, where SizeAddGtMax(a, b) is false
SizeAdd(a, b) == a + b
\* a - b as size_t (wraps below 0)
SizeSub(a, b) == a - b
\* (uint32_t)v: the low four bytes of v
ToU32(v) == U32Of(U32Bytes(v))

-----------------------------------------------------------------------------
(* Byte buffers; offsets are 0-based as in the code *)

Zeros(n) == [i \in 1..n |-> 0]

\* the n bytes at offset off, which lie inside buf
GetBytes(buf, off, n) == SubSeq(buf, off + 1, off + n)

\* buf with bytes b stored at offset off (the part inside buf)
PutBytes(buf, off, b) ==
    [i \in 1..Len(buf) |-> IF i > off /\ i <= off + Len(b) THEN b[i - off] ELSE buf[i]]

\* the fields of the DB_FILE at the start of buf
HdrMagic(buf) == GetBytes(buf, OffMagic, 8)
HdrVersion(buf) == buf[OffVersion + 1]
HdrLinksCount(buf) == U16Of(GetBytes(buf, OffLinksCount, 2))
HdrLinksTableOffset(buf) == U32Of(GetBytes(buf, OffLinksTableOffset, 4))
HdrStartOffset(buf) == U32Of(GetBytes(buf, OffStartOffset, 4))
HdrDataSize(buf) == U32Of(GetBytes(buf, OffDataSize, 4))
HdrFileSize(buf) == U32Of(GetBytes(buf, OffFileSize, 4))

\* a DB_FILE_LINK as its 8 bytes
LinkBytes(l) == U32Bytes(l.origin) \o U32Bytes(l.destination)

RECURSIVE LinksBytes(_)
LinksBytes(ls) == IF ls = <<>> THEN <<>> ELSE LinkBytes(Head(ls)) \o LinksBytes(Tail(ls))

-----------------------------------------------------------------------------
(* DBFileBuilder *)

\* DBFileBuilder(): data.resize(sizeof(DBFileBuilder)), start_offset = size
NewBuilderData(sz) == PutBytes(Zeros(sz), OffStartOffset, U32Bytes(ToU32(sz)))

\* AssertNotLinked throws only when DEBUG is defined
AssertNotLinkedThrows(dbg, lnk) == dbg /\ lnk

\* GetBlockSize(id)
GetBlockSize(bl, id) == IF id \in DOMAIN bl THEN bl[id] ELSE 0

\* blocks[id] = len
SetBlock(bl, id, len) == [x \in DOMAIN bl \cup {id} |-> IF x = id THEN len ELSE bl[x]]

\* the check of CreateBlock: id + len > INT32_MAX
FileTooBig(id, len) == SizeAddGtMax(id, len)

\* data.resize(n): truncates, or appends zero bytes
Resize(buf, n) == IF n <= Len(buf) THEN SubSeq(buf, 1, n) ELSE buf \o Zeros(n - Len(buf))

\* the bounds check of CreateLink, in uint32_t arithmetic
LinkOutOfBlock(origin, ors, destination, dss) ==
    U32Gt(U32Add(origin, 8), ors) \/ U32Gt(destination, dss)

\* the record CreateLink appends
NewLink(blockOrigin, origin, blockDestination, destination) ==
    [origin |-> U32Add(blockOrigin, origin),
     destination |-> U32Add(blockDestination, destination)]

\* (variant) Build() without its linked test
BuildNeverReturnsEarly(lnk) == FALSE

\* Build(): returns the header at once when linked is set
BuildReturnsEarly(lnk) == lnk

\* Build(): linksOffset + len > INT32_MAX, for a non-empty link vector
BuildTooBig(size, n) == n # 0 /\ SizeAddGtMax(size, SizeofLink * n)

\* Build(): the header fields computed from the buffer length before the
\* link table is appended, start_offset and the number of links
BuildFields(size, start, n) ==
    [links_table_offset |-> ToU32(size),
     links_count |-> ToU16(ToU32(n)),
     data_size |-> ToU32(SizeSub(size, start)),
     file_size |-> ToU32(IF n # 0 THEN SizeAdd(size, SizeofLink * n) ELSE size)]

\* Build(): the stores into the header
WriteHeader(buf, f) ==
    LET b1 == PutBytes(buf, OffMagic, DB_FILE_MAGIC)
        b2 == PutBytes(b1, OffVersion, <<DB_FILE_CURR_VERSION>>)
        b3 == PutBytes(b2, OffLinksTableOffset, U32Bytes(f.links_table_offset))
        b4 == PutBytes(b3, OffLinksCount, U16Bytes(f.links_count))
        b5 == PutBytes(b4, OffDataSize, U32Bytes(f.data_size))
    IN  PutBytes(b5, OffFileSize, U32Bytes(f.file_size))

\* Build(): the buffer after a call that finalizes
BuildData(buf, ls) ==
    WriteHeader(buf \o LinksBytes(ls), BuildFields(Len(buf), HdrStartOffset(buf), Len(ls)))

-----------------------------------------------------------------------------
(* Inputs of the builder's operations *)

\* a caller's buffer of n bytes, all different from 0
Pattern(n) == [i \in 1..n |-> 160 + i]

\* the buffers given to CreateBlock(buffer, len); len is the buffer's length
\* ("should contain at least len bytes")
BufferInputs == {<<>>, Pattern(8)}

\* the lengths given to CreateBlock(len)
LenInputs == {16, INT32_MAX}
\* and those given to it where the links are few (SpecBlocks)
AnyLenInputs == LenInputs \cup {SIZE_MAX}

\* block ids no CreateBlock call has returned
UnknownIds == {1000}

\* the offsets given to CreateLink; -8 holds 2^32 - 8
OriginInputs == {0, 4, -8}
DestinationInputs == {0, 8}

\* what a call reports: the operation, "ok" or the message of the exception
\* thrown, the block id returned (0 when the call returns none), the
\* arguments of a CreateBlock or CreateLink call that returned, and whether
\* a Build() returned at its linked test
Ret(op, err, id) == [op |-> op, err |-> err, id |-> id, args |-> <<>>, early |-> FALSE]
Returned(op, id, args) == [Ret(op, "ok", id) EXCEPT !.args = args]

NoReader == [state |-> "none"]
NoFn == [state |-> "none"]
NoView == [state |-> "none"]
\* the pointer &data[id] a call has returned
ViewAt(id) == [state |-> "held", id |-> id]

-----------------------------------------------------------------------------
(* Operations of DBFileBuilder *)

\* CreateBlock(void* buffer, size_t len)
CreateBlockBuf(buffer) ==
    LET id == Len(data)
        len == Len(buffer)
    IN  /\ nblocks < MaxBlocks
        /\ IF AssertNotLinkedThrows(DEBUG, linked)
           THEN /\ ret' = Ret("CreateBlock", "builder already linked!", 0)
                /\ UNCHANGED <<linked, data, blocks, nblocks>>
           ELSE /\ linked' = FALSE
                /\ IF len # 0
                   THEN IF FileTooBig(id, len)
                        THEN /\ ret' = Ret("CreateBlock", "file too big", 0)
                             /\ UNCHANGED <<data, blocks, nblocks>>
                        ELSE /\ data' = data \o buffer
                             /\ blocks' = SetBlock(blocks, ToU32(id), ToU32(len))
                             /\ nblocks' = nblocks + 1
                             /\ ret' = Returned("CreateBlock", ToU32(id), <<len>>)
                   ELSE /\ ret' = Returned("CreateBlock", ToU32(id), <<len>>)
                        /\ UNCHANGED <<data, blocks, nblocks>>
        /\ view' = IF ret'.err = "ok" THEN NoView ELSE view
        /\ UNCHANGED <<DEBUG, szBuilder, links, nbuilds, file, rd, fn>>

\* CreateBlock<BlockType>(const size_t len)
CreateBlockLen(len) ==
    LET id == Len(data)
    IN  /\ nblocks < MaxBlocks
        /\ IF AssertNotLinkedThrows(DEBUG, linked)
           THEN /\ ret' = Ret("CreateBlock", "builder already linked!", 0)
                /\ UNCHANGED <<linked, data, blocks, nblocks>>
           ELSE /\ linked' = FALSE
                /\ IF len # 0
                   THEN IF FileTooBig(id, len)
                        THEN /\ ret' = Ret("CreateBlock", "file too big", 0)
                             /\ UNCHANGED <<data, blocks, nblocks>>
                        ELSE /\ data' = Resize(data, SizeAdd(id, len))
                             /\ blocks' = SetBlock(blocks, ToU32(id), ToU32(len))
                             /\ nblocks' = nblocks + 1
                             /\ ret' = Returned("CreateBlock", ToU32(id), <<len>>)
                   ELSE /\ ret' = Returned("CreateBlock", ToU32(id), <<len>>)
                        /\ UNCHANGED <<data, blocks, nblocks>>
        /\ view' = IF ret'.err = "ok" THEN ViewAt(id) ELSE view
        /\ UNCHANGED <<DEBUG, szBuilder, links, nbuilds, file, rd, fn>>

\* CreateLink(blockOrigin, origin, blockDestination, destination)
CreateLink(blockOrigin, origin, blockDestination, destination) ==
    LET ors == GetBlockSize(blocks, blockOrigin)
        dss == GetBlockSize(blocks, blockDestination)
    IN  /\ Len(links) < MaxLinks
        /\ IF AssertNotLinkedThrows(DEBUG, linked)
           THEN /\ ret' = Ret("CreateLink", "builder already linked!", 0)
                /\ UNCHANGED <<linked, links>>
           ELSE /\ linked' = FALSE
                /\ IF LinkOutOfBlock(origin, ors, destination, dss)
                   THEN /\ ret' = Ret("CreateLink",
                                      "trying to create a link after the end of a block", 0)
                        /\ UNCHANGED links
                   ELSE /\ links' = Append(links,
                                NewLink(blockOrigin, origin, blockDestination, destination))
                        /\ ret' = Returned("CreateLink", 0,
                                <<blockOrigin, origin, blockDestination, destination>>)
        /\ UNCHANGED <<DEBUG, szBuilder, data, blocks, nblocks, nbuilds, file, rd, fn, view>>

\* GetBlock(id): the test id > data.size(), id widened to size_t
InvalidBlock(id, size) == U32Gt(id, size)

\* GetBlock<BlockType>(BlockId id)
GetBlock(id) ==
    /\ IF InvalidBlock(id, Len(data))
       THEN /\ ret' = Ret("GetBlock", "invalid block", 0)
            /\ UNCHANGED view
       ELSE /\ ret' = Returned("GetBlock", 0, <<id>>)
            /\ view' = ViewAt(id)
    /\ UNCHANGED <<DEBUG, szBuilder, linked, data, blocks, links, nblocks, nbuilds, file,
                   rd, fn>>

\* GetBlockSize(BlockId id) as a call: args holds the id and the size returned
GetBlockSizeCall(id) ==
    /\ ret' = Returned("GetBlockSize", 0, <<id, GetBlockSize(blocks, id)>>)
    /\ UNCHANGED <<DEBUG, szBuilder, linked, data, blocks, links, nblocks, nbuilds, file,
                   rd, fn, view>>

\* Build(): the builder's linked flag and buffer after the call, and whether
\* the call throws "file too big"
BuildResult(lnk, buf, ls) ==
    IF BuildReturnsEarly(lnk)
    THEN [linked |-> lnk, data |-> buf, err |-> "ok", early |-> TRUE]
    ELSE IF BuildTooBig(Len(buf), Len(ls))
    THEN [linked |-> TRUE, data |-> buf, err |-> "file too big", early |-> FALSE]
    ELSE [linked |-> TRUE, data |-> BuildData(buf, ls), err |-> "ok", early |-> FALSE]

\* Build()
Build ==
    LET r == BuildResult(linked, data, links)
    IN  /\ linked \/ nbuilds < MaxBuilds
        /\ nbuilds' = IF linked THEN nbuilds ELSE nbuilds + 1
        /\ linked' = r.linked
        /\ data' = r.data
        /\ ret' = [Ret("Build", r.err, 0) EXCEPT !.early = r.early]
        /\ UNCHANGED <<DEBUG, szBuilder, blocks, links, nblocks, file, rd, fn, view>>

\* of.write((const char* )f, f->file_size): the bytes written
Written(buf) == SubSeq(buf, 1, HdrFileSize(buf))

\* WriteToFile(path); opened tells whether the output file could be opened
WriteToFile(opened) ==
    LET r == BuildResult(linked, data, links)
    IN  /\ linked \/ nbuilds < MaxBuilds
        /\ nbuilds' = IF linked THEN nbuilds ELSE nbuilds + 1
        /\ linked' = r.linked
        /\ data' = r.data
        /\ IF r.err # "ok"
           THEN /\ ret' = [Ret("WriteToFile", r.err, 0) EXCEPT !.early = r.early]
                /\ UNCHANGED file
           ELSE IF ~opened
           THEN /\ ret' = [Ret("WriteToFile", "can't open output file", 0)
                              EXCEPT !.early = r.early]
                /\ UNCHANGED file
           ELSE /\ ret' = [Ret("WriteToFile", "ok", 0) EXCEPT !.early = r.early]
                /\ file' = Written(r.data)
        /\ UNCHANGED <<DEBUG, szBuilder, blocks, links, nblocks, rd, fn, view>>

-----------------------------------------------------------------------------
(* DBFileReader.  The reader's memory is the buffer buf; an access outside   *)
(* it is undefined: such a read yields the byte wild, such a write is lost,  *)
(* and the outcome records that it happened (oob).                           *)

\* is byte k of the object at offset off (a uint32_t) inside buf
InBuf(buf, off, k) == off >= 0 /\ off <= Len(buf) - 1 - k

RdByte(buf, off, k, wild) == IF InBuf(buf, off, k) THEN buf[off + k + 1] ELSE wild

\* the n bytes read at offset off
RdBytes(buf, off, n, wild) == [k \in 1..n |-> RdByte(buf, off, k - 1, wild)]

\* do the n bytes at offset off lie inside buf
AllInBuf(buf, off, n) == InBuf(buf, off, n - 1)

\* a + b for two little-endian byte strings of one length, the carry dropped
\* at the end
RECURSIVE AddLE(_, _, _)
AddLE(a, b, carry) ==
    IF a = <<>> THEN <<>>
    ELSE LET sum == Head(a) + Head(b) + carry
         IN  <<sum % 256>> \o AddLE(Tail(a), Tail(b), sum \div 256)

\* file->magic + destination: the address, as the 8 bytes the store writes
Address(base, destination) == AddLE(base, U32Bytes(destination) \o <<0, 0, 0, 0>>, 0)

\* offset of links[i] from file->magic, for a table inside or at the end of
\* buf; a table that starts beyond buf is read at -SizeofLink, outside it
LinkOffset(buf, lto, i) ==
    IF lto >= 0 /\ lto <= Len(buf) THEN lto + SizeofLink * i ELSE -SizeofLink

\* the tests of ValidateAndLink before the links are walked
FileTooSmall(len) == len # 0 /\ len < OffFileSize + SizeofSizeT
BadMagic(magic) == magic # DB_FILE_MAGIC
\* (variant) the version test with the comparison turned round
VersionTooLowReversed(version) == version > DB_FILE_MIN_VERSION
VersionTooLow(version) == version < DB_FILE_MIN_VERSION
ReadFileTooSmall(fileSize, len) == len # 0 /\ U32Gt(fileSize, len)
StartAfterEnd(startOffset, fileSize) == U32Gt(startOffset, fileSize)
HasLinking(version) == version >= LINKING
LinkAfterEnd(offset, fileSize) == U32Gt(offset, fileSize)

\* the loop of ValidateAndLink from index i on: the buffer it leaves, the
\* exception it throws ("ok" for none) and whether it went outside buf
RECURSIVE LinkLoop(_, _, _, _, _)
LinkLoop(buf, i, base, wild, oob) ==
    LET count == U16Of(RdBytes(buf, OffLinksCount, 2, wild))
        lto == U32Of(RdBytes(buf, OffLinksTableOffset, 4, wild))
        fileSize == U32Of(RdBytes(buf, OffFileSize, 4, wild))
        at == LinkOffset(buf, lto, i)
        origin == U32Of(RdBytes(buf, at, 4, wild))
        destination == U32Of(RdBytes(buf, at + 4, 4, wild))
        readOob == oob \/ ~AllInBuf(buf, at, SizeofLink)
    IN  IF ~(i < count)
        THEN [buf |-> buf, err |-> "ok", oob |-> oob]
        ELSE IF LinkAfterEnd(origin, fileSize) \/ LinkAfterEnd(destination, fileSize)
        THEN [buf |-> buf, err |-> "invalid file: link after end file", oob |-> readOob]
        ELSE LinkLoop(PutBytes(buf, origin, Address(base, destination)), i + 1, base, wild,
                      readOob \/ ~AllInBuf(buf, origin, SizeofPtr))

\* ValidateAndLink(len) over the memory buf at address base
ValidateAndLink(buf, len, base, wild) ==
    LET hdrOob == ~AllInBuf(buf, 0, SizeofDBFile)
        magic == RdBytes(buf, OffMagic, 8, wild)
        version == RdByte(buf, OffVersion, 0, wild)
        fileSize == U32Of(RdBytes(buf, OffFileSize, 4, wild))
        startOffset == U32Of(RdBytes(buf, OffStartOffset, 4, wild))
    IN  IF FileTooSmall(len)
        THEN [buf |-> buf, err |-> "invalid file: file too small", oob |-> FALSE]
        ELSE IF BadMagic(magic)
        THEN [buf |-> buf, err |-> "invalid file: bad magic",
              oob |-> ~AllInBuf(buf, OffMagic, 8)]
        ELSE IF VersionTooLow(version)
        THEN [buf |-> buf, err |-> "invalid file: version too low",
              oob |-> ~AllInBuf(buf, OffMagic, 9)]
        ELSE IF ReadFileTooSmall(fileSize, len)
        THEN [buf |-> buf, err |-> "invalid file: read file too small", oob |-> hdrOob]
        ELSE IF StartAfterEnd(startOffset, fileSize)
        THEN [buf |-> buf, err |-> "invalid file: start offset after file end",
              oob |-> hdrOob]
        ELSE IF HasLinking(version)
        THEN LinkLoop(buf, 0, base, wild, hdrOob)
        ELSE [buf |-> buf, err |-> "ok", oob |-> hdrOob]

\* the addresses a reader's buffer is loaded at, as 8 little-endian bytes:
\* 0x00007F3A10002000 and 0x000055D4FFFFFFF0
BaseInputs == {<<0, 32, 0, 16, 58, 127, 0, 0>>, <<240, 255, 255, 255, 212, 85, 0, 0>>}

\* what memory outside the buffer reads as
WildInputs == {0, 255}

\* the reader after construction over the bytes input with known length len
Loaded(input, len, base, wild) ==
    LET r == ValidateAndLink(input, len, base, wild)
    IN  [state |-> "done", input |-> input, len |-> len, base |-> base,
         buf |-> r.buf, err |-> r.err, oob |-> r.oob]

\* DBFileReader(path) over the file WriteToFile has written: the whole file
\* is read and its length is the known length
ReaderFromFile ==
    /\ ret.op = "WriteToFile" /\ ret.err = "ok"
    /\ \E base \in BaseInputs, wild \in WildInputs :
          rd' = Loaded(file, Len(file), base, wild)
    /\ UNCHANGED <<DEBUG, szBuilder, linked, data, blocks, links, ret, nblocks, nbuilds,
                   file, fn, view>>

\* ValidateAndLink run once more over the buffer an accepting reader has
\* left, at the same address: a second DBFileReader(buffer, length)
Relinked(r, wild) ==
    LET again == ValidateAndLink(r.buf, r.len, r.base, wild)
    IN  [state |-> "relinked", input |-> r.input, len |-> r.len, base |-> r.base,
         first |-> r.buf, buf |-> again.buf, err |-> again.err, oob |-> again.oob]

Relink ==
    /\ rd.state = "done" /\ rd.err = "ok"
    /\ \E wild \in WildInputs : rd' = Relinked(rd, wild)
    /\ UNCHANGED <<DEBUG, szBuilder, linked, data, blocks, links, ret, nblocks, nbuilds,
                   file, fn, view>>

-----------------------------------------------------------------------------
(* The builder, and a reader of the file it writes *)

\* ids a caller holds: those of the recorded blocks, and one it made up
OriginIdInputs == DOMAIN blocks
DestinationIdInputs == DOMAIN blocks \cup UnknownIds

Init ==
    /\ DEBUG \in BOOLEAN
    /\ szBuilder = SizeofDBFileBuilder
    /\ linked = FALSE
    /\ data = NewBuilderData(szBuilder)
    /\ blocks = <<>>
    /\ links = <<>>
    /\ ret = Ret("DBFileBuilder", "ok", 0)
    /\ nblocks = 0
    /\ nbuilds = 0
    /\ file = <<>>
    /\ rd = NoReader
    /\ fn = NoFn
    /\ view = NoView

DoCreateBlockBuf == \E b \in BufferInputs : CreateBlockBuf(b)
DoCreateBlockLen == \E n \in LenInputs : CreateBlockLen(n)
DoCreateLink ==
    \E bo \in OriginIdInputs, o \in OriginInputs,
       bd \in DestinationIdInputs, d \in DestinationInputs :
        CreateLink(bo, o, bd, d)
DoWriteToFile == \E opened \in BOOLEAN : WriteToFile(opened)

\* The builder is followed until it has written its file.
BuilderInUse == file = <<>>

Next ==
    \/ BuilderInUse /\ DoCreateBlockBuf
    \/ BuilderInUse /\ DoCreateBlockLen
    \/ BuilderInUse /\ DoCreateLink
    \/ BuilderInUse /\ Build
    \/ BuilderInUse /\ DoWriteToFile
    \/ ReaderFromFile

Spec == Init /\ [][Next]_vars

-----------------------------------------------------------------------------
(* The builder creating blocks of any length, with links only from the   *)
(* start of a recorded block to that block                                *)

DoCreateBlockAnyLen == \E n \in AnyLenInputs : CreateBlockLen(n)
DoCreateSelfLink == \E b \in DOMAIN blocks : CreateLink(b, 0, b, 0)

NextBlocks ==
    \/ DoCreateBlockBuf
    \/ DoCreateBlockAnyLen
    \/ DoCreateSelfLink
    \/ Build

SpecBlocks == Init /\ [][NextBlocks]_vars

-----------------------------------------------------------------------------
(* The builder's file loaded and then linked a second time.  The caller    *)
(* links from recorded blocks and from an id it made up, to the start of   *)
(* recorded blocks.                                                        *)

\* an id that no block has: the builder's buffer starts beyond it
MadeUpIds == {SizeofPtr}
\* origin offsets; -8 holds 2^32 - 8
RelinkOriginInputs == {0, -8}

DoCreateLinkMadeUp ==
    \E bo \in DOMAIN blocks \cup MadeUpIds, o \in RelinkOriginInputs, bd \in DOMAIN blocks :
        CreateLink(bo, o, bd, 0)

NextRelink ==
    \/ BuilderInUse /\ DoCreateBlockBuf
    \/ BuilderInUse /\ DoCreateLinkMadeUp
    \/ BuilderInUse /\ DoWriteToFile
    \/ ReaderFromFile
    \/ Relink

SpecRelink == Init /\ [][NextRelink]_vars

-----------------------------------------------------------------------------
(* The builder and a caller that holds a view into its buffer *)

DoGetBlock == \E id \in DOMAIN blocks \cup UnknownIds : GetBlock(id)
DoGetBlockSize == \E id \in DOMAIN blocks \cup UnknownIds : GetBlockSizeCall(id)

NextViews ==
    \/ DoCreateBlockLen
    \/ DoCreateSelfLink
    \/ DoGetBlock
    \/ DoGetBlockSize
    \/ Build

SpecViews == Init /\ [][NextViews]_vars

-----------------------------------------------------------------------------
(* Build()'s header computation over builders of any size.  A builder that  *)
(* holds size bytes and n links is reached by CreateBlock and CreateLink;   *)
(* fn holds those two numbers in place of the bytes and the records.        *)

\* lengths of the data region, up to the cap of the buffer
FnDataSizes(sz) == {0, 8, 24, INT32_MAX - sz - 16, INT32_MAX - sz - 8, INT32_MAX - sz}

\* numbers of recorded links, around the range of the links_count field
FnLinkCounts == {0, 1, 2, 65535, 65536, 65537}

\* the header of a new builder: zeros but for start_offset
NewHeader(sz) ==
    [magic |-> Zeros(8), version |-> 0, links_table_offset |-> 0, links_count |-> 0,
     start_offset |-> HdrStartOffset(NewBuilderData(sz)), data_size |-> 0, file_size |-> 0]

\* the header after the stores of Build()
BuiltHeader(hdr, f) ==
    [hdr EXCEPT !.magic = DB_FILE_MAGIC, !.version = DB_FILE_CURR_VERSION,
                !.links_table_offset = f.links_table_offset,
                !.links_count = f.links_count,
                !.data_size = f.data_size, !.file_size = f.file_size]

InitBuild ==
    /\ DEBUG \in BOOLEAN
    /\ szBuilder \in BuilderSizes
    /\ linked = FALSE
    /\ data = NewBuilderData(szBuilder)
    /\ blocks = <<>>
    /\ links = <<>>
    /\ ret = Ret("DBFileBuilder", "ok", 0)
    /\ nblocks = 0
    /\ nbuilds = 0
    /\ file = <<>>
    /\ rd = NoReader
    /\ view = NoView
    /\ \E d \in FnDataSizes(szBuilder), n \in FnLinkCounts :
          \* a link needs a block of SizeofPtr bytes to start in
          /\ n = 0 \/ d >= SizeofPtr
          /\ fn = [state |-> "builder", calls |-> 0, linked |-> FALSE,
                   size |-> szBuilder + d, nlinks |-> n, added |-> 0,
                   hdr |-> NewHeader(szBuilder), err |-> "ok"]

\* Build() on the builder fn describes; added counts the bytes appended
FnBuild ==
    /\ fn.calls < MaxCalls
    /\ fn' = IF BuildReturnsEarly(fn.linked)
             THEN [fn EXCEPT !.calls = @ + 1, !.err = "ok"]
             ELSE IF BuildTooBig(fn.size, fn.nlinks)
             THEN [fn EXCEPT !.calls = @ + 1, !.linked = TRUE, !.err = "file too big"]
             ELSE [fn EXCEPT !.calls = @ + 1, !.linked = TRUE, !.err = "ok",
                             !.added = @ + SizeofLink * fn.nlinks,
                             !.hdr = BuiltHeader(@, BuildFields(fn.size,
                                                    fn.hdr.start_offset, fn.nlinks))]
    /\ UNCHANGED <<DEBUG, szBuilder, linked, data, blocks, links, ret, nblocks, nbuilds,
                   file, rd, view>>

NextBuild == FnBuild

SpecBuild == InitBuild /\ [][NextBuild]_vars

-----------------------------------------------------------------------------
(* A reader over a caller's buffer: a 60-byte container (header, 16 bytes   *)
(* of payload, two link records) with some of its fields altered.          *)

ImgStart == SizeofDBFile
ImgData == 2 * SizeofLink
ImgTable == ImgStart + ImgData
ImgSize == ImgTable + 2 * SizeofLink

ImgMagics == {DB_FILE_MAGIC, <<36, 68, 66, 70, 10, 13, 0, 1>>}
ImgVersions == {15, 16}
ImgFileSizes == {ImgTable, ImgSize, ImgSize + 1}
ImgLinksCounts == {0, 1, 2}
ImgLinks0 == {[origin |-> ImgStart, destination |-> ImgStart + 8],
              [origin |-> ImgSize + 1, destination |-> ImgStart],
              [origin |-> OffFileSize, destination |-> ImgStart]}
ImgLinks1 == {[origin |-> ImgStart + 8, destination |-> ImgStart],
              [origin |-> ImgStart, destination |-> 1000],
              [origin |-> ImgSize, destination |-> ImgTable]}
\* the known lengths given with the buffer; 0 is "unknown"
ImgLens == {0, 28, 31, 32, ImgSize - 1, ImgSize}

Image(magic, version, count, fileSize, l0, l1) ==
    LET b0 == Zeros(ImgStart) \o Pattern(ImgData) \o LinkBytes(l0) \o LinkBytes(l1)
        b1 == PutBytes(b0, OffMagic, magic)
        b2 == PutBytes(b1, OffVersion, <<version>>)
        b3 == PutBytes(b2, OffLinksCount, U16Bytes(count))
        b4 == PutBytes(b3, OffLinksTableOffset, U32Bytes(ImgTable))
        b5 == PutBytes(b4, OffStartOffset, U32Bytes(ImgStart))
        b6 == PutBytes(b5, OffDataSize, U32Bytes(ImgData))
    IN  PutBytes(b6, OffFileSize, U32Bytes(fileSize))

InitReader ==
    /\ DEBUG = FALSE
    /\ szBuilder = SizeofDBFileBuilder
    /\ linked = FALSE
    /\ data = NewBuilderData(szBuilder)
    /\ blocks = <<>>
    /\ links = <<>>
    /\ ret = Ret("DBFileBuilder", "ok", 0)
    /\ nblocks = 0
    /\ nbuilds = 0
    /\ file = <<>>
    /\ fn = NoFn
    /\ view = NoView
    /\ \E m \in ImgMagics, v \in ImgVersions, c \in ImgLinksCounts, fs \in ImgFileSizes,
          l0 \in ImgLinks0, l1 \in ImgLinks1, len \in ImgLens :
          rd = [state |-> "input", input |-> Image(m, v, c, fs, l0, l1), len |-> len]

\* DBFileReader(void* buffer, size_t length)
ReaderFromBuffer ==
    /\ rd.state = "input"
    /\ \E base \in BaseInputs, wild \in WildInputs :
          rd' = Loaded(rd.input, rd.len, base, wild)
    /\ UNCHANGED <<DEBUG, szBuilder, linked, data, blocks, links, ret, nblocks, nbuilds,
                   file, fn, view>>

NextReader == ReaderFromBuffer

SpecReader == InitReader /\ [][NextReader]_vars

-----------------------------------------------------------------------------
(* Properties *)

\* a uint32_t or size_t of the representation that is 2^31 or more
Huge(v) == v < 0

\* the seven header fields Build() returns a view of
HeaderFields(buf) ==
    <<HdrMagic(buf), HdrVersion(buf), HdrLinksCount(buf), HdrLinksTableOffset(buf),
      HdrStartOffset(buf), HdrDataSize(buf), HdrFileSize(buf)>>

\* C1: once Build() has finalized the builder, every CreateBlock or
\* CreateLink call fails with an error and adds no block, no bytes and no
\* link record, whether DEBUG is defined or not.
C1_MutationAfterBuildFails ==
    [][(nbuilds >= 1 /\ ret'.op \in {"CreateBlock", "CreateLink"})
          => (ret'.err # "ok" /\ data' = data /\ blocks' = blocks /\ links' = links)]_vars

\* C2: a Build() call (alone or from WriteToFile) that follows a Build()
\* that did not throw returns the same seven header fields and leaves the
\* buffer length unchanged.
C2_BuildIdempotent ==
    [][(/\ ret.op \in {"Build", "WriteToFile"} /\ ret.err # "file too big"
        /\ ret'.op \in {"Build", "WriteToFile"} /\ rd' = rd)
          => (/\ ret'.err # "file too big"
              /\ HeaderFields(data') = HeaderFields(data)
              /\ Len(data') = Len(data))]_vars

\* a second Build() has returned at its linked test on a builder with links
C2_Witness ==
    /\ ret.op = "Build" /\ ret.err = "ok" /\ ret.early
    /\ nbuilds >= 1 /\ Len(links) >= 1

\* C3: a reader that loads the file the builder wrote, with its true
\* length, passes every validation step.
C3_ReaderAcceptsBuilt == rd.state = "done" => rd.err = "ok"

\* the 8 bytes at the origin of link l hold base + destination
SlotHolds(buf, l, base) ==
    /\ AllInBuf(buf, l.origin, SizeofPtr)
    /\ GetBytes(buf, l.origin, SizeofPtr) = Address(base, l.destination)

\* is offset off inside the slot of one of the links ls
InSomeSlot(ls, off) ==
    \E k \in 1..Len(ls) : off >= ls[k].origin /\ off < ls[k].origin + SizeofPtr

\* C4: after a reader has loaded the builder's file, the slot of every
\* recorded link holds base + destination and every payload byte outside
\* the slots is the byte the builder holds.
C4_RoundTripContent ==
    (rd.state = "done" /\ rd.err = "ok") =>
        /\ \A k \in 1..Len(links) : SlotHolds(rd.buf, links[k], rd.base)
        /\ \A off \in HdrStartOffset(data)..(HdrLinksTableOffset(data) - 1) :
              InSomeSlot(links, off) \/ rd.buf[off + 1] = data[off + 1]

\* C5: a CreateLink call that returned had, as unbounded integers,
\* originOffset + 8 <= size(originBlock) and destOffset <= size(destBlock).
C5_LinkInsideBlocks ==
    (ret.op = "CreateLink" /\ ret.err = "ok") =>
        LET ors == GetBlockSize(blocks, ret.args[1])
            dss == GetBlockSize(blocks, ret.args[3])
        IN  /\ ~Huge(ret.args[2]) /\ (Huge(ors) \/ ret.args[2] + 8 <= ors)
            /\ Huge(dss) \/ (~Huge(ret.args[4]) /\ ret.args[4] <= dss)

\* C6: a CreateBlock call that returned was asked for a length that keeps
\* the buffer within INT32_MAX, and the buffer has grown by that length.
C6_OverflowGuard ==
    (ret.op = "CreateBlock" /\ ret.err = "ok") =>
        /\ ~Huge(ret.args[1])
        /\ ret.args[1] <= INT32_MAX - ret.id
        /\ Len(data) = ret.id + ret.args[1]

C8_NoPartialLoad == (rd.state = "done" /\ rd.err # "ok") => rd.buf = rd.input

\* C9: after the Build() call that finalizes, links_count is the number of
\* recorded links, links_table_offset = start_offset + data_size and
\* file_size = links_table_offset + 8 * links_count = the buffer length.
C9_HeaderConsistent ==
    (fn.calls = 1 /\ fn.err = "ok") =>
        /\ fn.hdr.links_count = fn.nlinks
        /\ fn.hdr.links_table_offset = fn.hdr.start_offset + fn.hdr.data_size
        /\ fn.hdr.file_size = fn.hdr.links_table_offset + SizeofLink * fn.hdr.links_count
        /\ fn.hdr.file_size = fn.size + fn.added

\* C10: a new builder's buffer is the 28-byte header and start_offset is 28;
\* a finalized container has file_size = 28 + data_size + 8 * links_count.
C10_NewBuilderHoldsHeader ==
    /\ ret.op = "DBFileBuilder"
          => (Len(data) = SizeofDBFile /\ HdrStartOffset(data) = SizeofDBFile)
    /\ (ret.op = "Build" /\ ret.err = "ok")
          => HdrFileSize(data) = SizeofDBFile + HdrDataSize(data)
                                   + SizeofLink * HdrLinksCount(data)

\* C11: after a CreateBlock call with length 0 has returned an id, the next
\* builder call, whatever it is, leaves GetBlockSize(id) at 0.
C11_ZeroLengthSizeStaysZero ==
    [][(ret.op = "CreateBlock" /\ ret.err = "ok" /\ ret.args = <<0>>)
          => GetBlockSize(blocks', ret.id) = 0]_vars

\* C12: while a caller holds a view from CreateBlock(len) or GetBlock, a
\* CreateLink, GetBlock, GetBlockSize or Build call leaves the length of the
\* buffer as it is (a vector that does not grow does not reallocate).
C12_ViewStaysValid ==
    [][(view.state = "held" /\ ret'.op \in {"CreateLink", "GetBlock", "GetBlockSize", "Build"})
          => Len(data') = Len(data)]_vars

\* the link records of the table of buf, which lies inside buf
TableLinks(buf) ==
    [i \in 1..HdrLinksCount(buf) |->
        [origin |-> U32Of(GetBytes(buf, HdrLinksTableOffset(buf) + SizeofLink * (i - 1), 4)),
         destination |->
            U32Of(GetBytes(buf, HdrLinksTableOffset(buf) + SizeofLink * (i - 1) + 4, 4))]]

\* C13: a reader given length 0 does not fail on a length test, and fails
\* on a buffer with a bad magic, a version below the minimum, start_offset
\* above file_size, or a link with origin or destination above file_size.
C13_UnknownLengthStillChecked ==
    (rd.state = "done" /\ rd.len = 0) =>
        LET fileSize == HdrFileSize(rd.input)
            ls == TableLinks(rd.input)
        IN  /\ rd.err \notin {"invalid file: file too small",
                              "invalid file: read file too small"}
            /\ (\/ HdrMagic(rd.input) # DB_FILE_MAGIC
                \/ HdrVersion(rd.input) < DB_FILE_MIN_VERSION
                \/ HdrStartOffset(rd.input) > fileSize
                \/ \E i \in 1..Len(ls) : ls[i].origin > fileSize \/ ls[i].destination > fileSize)
                  => rd.err # "ok"

\* C14: with a known length, the reader fails with "file too small" exactly
\* when that length is below the 28 bytes of the header through file_size.
C14_TooSmallBelowHeader ==
    (rd.state = "done" /\ rd.len # 0) =>
        ((rd.err = "invalid file: file too small") <=> (rd.len < SizeofDBFile))

\* C15: a CreateLink call that fails with the bounds error, or a CreateBlock
\* call that fails with "file too big", leaves buffer, block sizes, links
\* and the finalized flag as they were.
C15_FailedCallChangesNothing ==
    [][(\/ ret'.op = "CreateLink"
           /\ ret'.err = "trying to create a link after the end of a block"
        \/ ret'.op = "CreateBlock" /\ ret'.err = "file too big")
          => (data' = data /\ blocks' = blocks /\ links' = links /\ linked' = linked)]_vars

\* C16: the header a Build() call returns holds DB_FILE_MAGIC, the current
\* version and the buffer length as file_size, also when an earlier Build()
\* on the builder threw "file too big".
C16_ReturnedHeaderFinalized ==
    (fn.state = "builder" /\ fn.calls >= 1 /\ fn.err = "ok") =>
        /\ fn.hdr.magic = DB_FILE_MAGIC
        /\ fn.hdr.version = DB_FILE_CURR_VERSION
        /\ fn.hdr.file_size = fn.size + fn.added

\* C17: a reader that accepts a buffer given with its true length has read
\* and written only bytes inside the buffer.
C17_ReaderStaysInside ==
    (rd.state = "done" /\ rd.len = Len(rd.input) /\ rd.err = "ok") => ~rd.oob

\* C18: every recorded block starts at or after start_offset and ends at or
\* before the end of the buffer, and no two recorded blocks overlap.
C18_BlockTableInvariant ==
    /\ \A id \in DOMAIN blocks :
          /\ ~Huge(id) /\ ~Huge(blocks[id])
          /\ HdrStartOffset(data) <= id
          /\ blocks[id] <= Len(data) - id
    /\ \A a, b \in DOMAIN blocks :
          a # b => (blocks[a] <= b - a \/ blocks[b] <= a - b)

\* C19: validate-and-link run a second time, at the same address, over the
\* builder's file that a first run has accepted and linked, succeeds and
\* leaves every byte as the first run left it.
C19_RelinkIdempotent ==
    rd.state = "relinked" => (rd.err = "ok" /\ rd.buf = rd.first)

=============================================================================
